---- MODULE Spec2Model ----
(***************************************************************************)
(* Model of mnemonist's LRUCache (src/lru-cache.js): a fixed-capacity LRU  *)
(* cache whose doubly-linked list is kept in static arrays and pointers.   *)
(***************************************************************************)
EXTENDS Integers, Sequences, FiniteSets

\* ------------------------------------------------------------------ bounds
MaxCapacity == 3
NumKeys == 4
NumValues == 2

Capacities == 1..MaxCapacity
Keys == 1..NumKeys
Values == 1..NumValues

\* JavaScript's undefined: a hole of `new Array(capacity)`, a missing Map entry,
\* the result of a function that returns nothing.
Undefined == -1

VARIABLES capacity, size, head, tail, forward, backward, keys, values, items,
          call, touched, model, fresh, scenario

vars == <<capacity, size, head, tail, forward, backward, keys, values, items,
          call, touched, model, fresh, scenario>>

\* The fields of the LRUCache object, as one record.
this == [capacity |-> capacity, size |-> size, head |-> head, tail |-> tail,
         forward |-> forward, backward |-> backward, keys |-> keys,
         values |-> values, items |-> items]

\* ------------------------------------------------- JavaScript containers
\* arr[i]: reading outside the array gives undefined.
At(arr, i) == IF i \in DOMAIN arr THEN arr[i] ELSE Undefined

\* arr[i] = v on a typed array of unsigned integers: undefined is stored as 0
\* and a write at an index outside the array is ignored; arr[undefined] = v
\* sets the property "undefined" of the array object.
TypedPut(arr, i, v) ==
  IF i \in Nat
  THEN IF i \in DOMAIN arr THEN [arr EXCEPT ![i] = IF v = Undefined THEN 0 ELSE v]
       ELSE arr
  ELSE [j \in (DOMAIN arr) \cup {i} |-> IF j = i THEN v ELSE arr[j]]

\* arr[i] = v on a plain Array: a write past the end lengthens the array;
\* arr[undefined] = v sets the property "undefined" of the array object.
ArrayPut(arr, i, v) ==
  IF i \in DOMAIN arr THEN [arr EXCEPT ![i] = v]
  ELSE IF i \in Nat THEN [j \in (DOMAIN arr) \cup (0..i) |->
                            IF j = i THEN v ELSE At(arr, j)]
  ELSE [j \in (DOMAIN arr) \cup {i} |-> IF j = i THEN v ELSE arr[j]]

\* new PointerArray(capacity): a typed array, zero-filled.
PointerArray(n) == [i \in 0..(n - 1) |-> 0]

\* new Array(capacity): capacity holes.
NewArray(n) == [i \in 0..(n - 1) |-> Undefined]

\* Map.prototype.get / has / set / delete on the key -> pointer map.
MapGet(m, key) == IF key \in DOMAIN m THEN m[key] ELSE Undefined
MapHas(m, key) == key \in DOMAIN m
MapSet(m, key, v) == [k \in (DOMAIN m) \cup {key} |-> IF k = key THEN v ELSE m[k]]
MapDelete(m, key) == [k \in (DOMAIN m) \ {key} |-> m[k]]
EmptyMap == [k \in {} |-> 0]

\* ------------------------------------------------------------ operations
\* clear that forgets to empty the key -> pointer map.
clear_KeepsItems(c) == [c EXCEPT !.size = 0, !.head = 0, !.tail = 0]

\* clear that does not reset tail.
clear_TailNotReset(c) == [c EXCEPT !.size = 0, !.head = 0, !.items = EmptyMap]

\* clear that does not reset head.
clear_HeadNotReset(c) == [c EXCEPT !.size = 0, !.tail = 0, !.items = EmptyMap]

\* clear that also scrubs the keys and values arrays.
clear_ScrubsArrays(c) ==
  [c EXCEPT !.size = 0, !.head = 0, !.tail = 0, !.items = EmptyMap,
            !.keys = NewArray(c.capacity), !.values = NewArray(c.capacity)]

\* clear that resets size and the key -> pointer map but neither head nor tail.
clear_PointersNotReset(c) == [c EXCEPT !.size = 0, !.items = EmptyMap]

\* LRUCache.prototype.clear
clear(c) == [c EXCEPT !.size = 0, !.head = 0, !.tail = 0, !.items = EmptyMap]

\* splayOnTop that does not relink the predecessor of the moved slot
\* (forward[backward[pointer]] is left alone).
splayOnTop_NoForwardRelink(c, pointer) ==
  LET oldHead == c.head
      c1 == IF c.tail = pointer
            THEN [c EXCEPT !.tail = At(c.backward, pointer)]
            ELSE [c EXCEPT !.backward =
                    TypedPut(c.backward, At(c.forward, pointer), At(c.backward, pointer))]
      c3 == [c1 EXCEPT !.backward = TypedPut(c1.backward, oldHead, pointer)]
      c4 == [c3 EXCEPT !.head = pointer]
  IN IF c.head = pointer THEN c
     ELSE [c4 EXCEPT !.forward = TypedPut(c4.forward, pointer, oldHead)]

\* splayOnTop that relinks the slot but leaves head where it was.
splayOnTop_HeadNotMoved(c, pointer) ==
  LET oldHead == c.head
      c1 == IF c.tail = pointer
            THEN [c EXCEPT !.tail = At(c.backward, pointer)]
            ELSE [c EXCEPT !.backward =
                    TypedPut(c.backward, At(c.forward, pointer), At(c.backward, pointer))]
      c2 == [c1 EXCEPT !.forward =
                    TypedPut(c1.forward, At(c1.backward, pointer), At(c1.forward, pointer))]
      c3 == [c2 EXCEPT !.backward = TypedPut(c2.backward, oldHead, pointer)]
  IN IF c.head = pointer THEN c
     ELSE [c3 EXCEPT !.forward = TypedPut(c3.forward, pointer, oldHead)]

\* splayOnTop without the test for a slot that is already the head.
splayOnTop_NoHeadGuard(c, pointer) ==
  LET oldHead == c.head
      c1 == IF c.tail = pointer
            THEN [c EXCEPT !.tail = At(c.backward, pointer)]
            ELSE [c EXCEPT !.backward =
                    TypedPut(c.backward, At(c.forward, pointer), At(c.backward, pointer))]
      c2 == [c1 EXCEPT !.forward =
                    TypedPut(c1.forward, At(c1.backward, pointer), At(c1.forward, pointer))]
      c3 == [c2 EXCEPT !.backward = TypedPut(c2.backward, oldHead, pointer)]
      c4 == [c3 EXCEPT !.head = pointer]
  IN IF FALSE THEN c
     ELSE [c4 EXCEPT !.forward = TypedPut(c4.forward, pointer, oldHead)]

\* splayOnTop that does not move tail when it promotes the tail slot.
splayOnTop_TailNotMoved(c, pointer) ==
  LET oldHead == c.head
      c1 == IF c.tail = pointer
            THEN c
            ELSE [c EXCEPT !.backward =
                    TypedPut(c.backward, At(c.forward, pointer), At(c.backward, pointer))]
      c2 == [c1 EXCEPT !.forward =
                    TypedPut(c1.forward, At(c1.backward, pointer), At(c1.forward, pointer))]
      c3 == [c2 EXCEPT !.backward = TypedPut(c2.backward, oldHead, pointer)]
      c4 == [c3 EXCEPT !.head = pointer]
  IN IF c.head = pointer THEN c
     ELSE [c4 EXCEPT !.forward = TypedPut(c4.forward, pointer, oldHead)]

\* splayOnTop that relinks the predecessor with backward[pointer] instead of
\* forward[pointer].
splayOnTop_RelinkTypo(c, pointer) ==
  LET oldHead == c.head
      c1 == IF c.tail = pointer
            THEN [c EXCEPT !.tail = At(c.backward, pointer)]
            ELSE [c EXCEPT !.backward =
                    TypedPut(c.backward, At(c.forward, pointer), At(c.backward, pointer))]
      c2 == [c1 EXCEPT !.forward =
                    TypedPut(c1.forward, At(c1.backward, pointer), At(c1.backward, pointer))]
      c3 == [c2 EXCEPT !.backward = TypedPut(c2.backward, oldHead, pointer)]
      c4 == [c3 EXCEPT !.head = pointer]
  IN IF c.head = pointer THEN c
     ELSE [c4 EXCEPT !.forward = TypedPut(c4.forward, pointer, oldHead)]

\* LRUCache.prototype.splayOnTop
splayOnTop(c, pointer) ==
  LET oldHead == c.head
      c1 == IF c.tail = pointer
            THEN [c EXCEPT !.tail = At(c.backward, pointer)]
            ELSE [c EXCEPT !.backward =
                    TypedPut(c.backward, At(c.forward, pointer), At(c.backward, pointer))]
      c2 == [c1 EXCEPT !.forward =
                    TypedPut(c1.forward, At(c1.backward, pointer), At(c1.forward, pointer))]
      c3 == [c2 EXCEPT !.backward = TypedPut(c2.backward, oldHead, pointer)]
      c4 == [c3 EXCEPT !.head = pointer]
  IN IF c.head = pointer THEN c
     ELSE [c4 EXCEPT !.forward = TypedPut(c4.forward, pointer, oldHead)]

\* set that takes a fresh slot while size <= capacity.
set_SizeCheckOffByOne(c, key, value) ==
  LET existingPointer == MapGet(c.items, key)
      full == ~(c.size <= c.capacity)
      pointer == IF full THEN c.tail ELSE c.size
      c1 == IF full
            THEN [c EXCEPT !.tail = At(c.backward, pointer),
                           !.items = MapDelete(c.items, At(c.keys, pointer))]
            ELSE [c EXCEPT !.size = c.size + 1]
      c2 == [c1 EXCEPT !.items = MapSet(c1.items, key, pointer),
                       !.keys = ArrayPut(c1.keys, pointer, key),
                       !.values = ArrayPut(c1.values, pointer, value)]
      previousPointer == c2.head
  IN IF existingPointer # Undefined
     THEN LET s == splayOnTop(c, existingPointer)
          IN [s EXCEPT !.values = ArrayPut(s.values, existingPointer, value)]
     ELSE IF c2.size > 1
          THEN [c2 EXCEPT !.head = pointer,
                          !.backward = TypedPut(c2.backward, previousPointer, pointer),
                          !.forward = TypedPut(c2.forward, pointer, previousPointer)]
          ELSE c2

\* set that evicts the tail slot but leaves its key in the key -> pointer map.
set_KeepsEvictedKey(c, key, value) ==
  LET existingPointer == MapGet(c.items, key)
      full == ~(c.size < c.capacity)
      pointer == IF full THEN c.tail ELSE c.size
      c1 == IF full
            THEN [c EXCEPT !.tail = At(c.backward, pointer)]
            ELSE [c EXCEPT !.size = c.size + 1]
      c2 == [c1 EXCEPT !.items = MapSet(c1.items, key, pointer),
                       !.keys = ArrayPut(c1.keys, pointer, key),
                       !.values = ArrayPut(c1.values, pointer, value)]
      previousPointer == c2.head
  IN IF existingPointer # Undefined
     THEN LET s == splayOnTop(c, existingPointer)
          IN [s EXCEPT !.values = ArrayPut(s.values, existingPointer, value)]
     ELSE IF c2.size > 1
          THEN [c2 EXCEPT !.head = pointer,
                          !.backward = TypedPut(c2.backward, previousPointer, pointer),
                          !.forward = TypedPut(c2.forward, pointer, previousPointer)]
          ELSE c2

\* set that promotes a resident key without storing the new value.
set_UpdateDropsValue(c, key, value) ==
  LET existingPointer == MapGet(c.items, key)
      full == ~(c.size < c.capacity)
      pointer == IF full THEN c.tail ELSE c.size
      c1 == IF full
            THEN [c EXCEPT !.tail = At(c.backward, pointer),
                           !.items = MapDelete(c.items, At(c.keys, pointer))]
            ELSE [c EXCEPT !.size = c.size + 1]
      c2 == [c1 EXCEPT !.items = MapSet(c1.items, key, pointer),
                       !.keys = ArrayPut(c1.keys, pointer, key),
                       !.values = ArrayPut(c1.values, pointer, value)]
      previousPointer == c2.head
  IN IF existingPointer # Undefined
     THEN LET s == splayOnTop(c, existingPointer)
          IN s
     ELSE IF c2.size > 1
          THEN [c2 EXCEPT !.head = pointer,
                          !.backward = TypedPut(c2.backward, previousPointer, pointer),
                          !.forward = TypedPut(c2.forward, pointer, previousPointer)]
          ELSE c2

\* set that never looks the key up and always stores it as a new key.
set_NoExistingCheck(c, key, value) ==
  LET existingPointer == MapGet(c.items, key)
      full == ~(c.size < c.capacity)
      pointer == IF full THEN c.tail ELSE c.size
      c1 == IF full
            THEN [c EXCEPT !.tail = At(c.backward, pointer),
                           !.items = MapDelete(c.items, At(c.keys, pointer))]
            ELSE [c EXCEPT !.size = c.size + 1]
      c2 == [c1 EXCEPT !.items = MapSet(c1.items, key, pointer),
                       !.keys = ArrayPut(c1.keys, pointer, key),
                       !.values = ArrayPut(c1.values, pointer, value)]
      previousPointer == c2.head
  IN IF FALSE
     THEN LET s == splayOnTop(c, existingPointer)
          IN [s EXCEPT !.values = ArrayPut(s.values, existingPointer, value)]
     ELSE IF c2.size > 1
          THEN [c2 EXCEPT !.head = pointer,
                          !.backward = TypedPut(c2.backward, previousPointer, pointer),
                          !.forward = TypedPut(c2.forward, pointer, previousPointer)]
          ELSE c2

\* set that does not store the key in the keys array.
set_KeyNotStored(c, key, value) ==
  LET existingPointer == MapGet(c.items, key)
      full == ~(c.size < c.capacity)
      pointer == IF full THEN c.tail ELSE c.size
      c1 == IF full
            THEN [c EXCEPT !.tail = At(c.backward, pointer),
                           !.items = MapDelete(c.items, At(c.keys, pointer))]
            ELSE [c EXCEPT !.size = c.size + 1]
      c2 == [c1 EXCEPT !.items = MapSet(c1.items, key, pointer),
                       !.values = ArrayPut(c1.values, pointer, value)]
      previousPointer == c2.head
  IN IF existingPointer # Undefined
     THEN LET s == splayOnTop(c, existingPointer)
          IN [s EXCEPT !.values = ArrayPut(s.values, existingPointer, value)]
     ELSE IF c2.size > 1
          THEN [c2 EXCEPT !.head = pointer,
                          !.backward = TypedPut(c2.backward, previousPointer, pointer),
                          !.forward = TypedPut(c2.forward, pointer, previousPointer)]
          ELSE c2

\* LRUCache.prototype.set
set(c, key, value) ==
  LET existingPointer == MapGet(c.items, key)
      full == ~(c.size < c.capacity)
      pointer == IF full THEN c.tail ELSE c.size
      c1 == IF full
            THEN [c EXCEPT !.tail = At(c.backward, pointer),
                           !.items = MapDelete(c.items, At(c.keys, pointer))]
            ELSE [c EXCEPT !.size = c.size + 1]
      c2 == [c1 EXCEPT !.items = MapSet(c1.items, key, pointer),
                       !.keys = ArrayPut(c1.keys, pointer, key),
                       !.values = ArrayPut(c1.values, pointer, value)]
      previousPointer == c2.head
  IN IF existingPointer # Undefined
     THEN LET s == splayOnTop(c, existingPointer)
          IN [s EXCEPT !.values = ArrayPut(s.values, existingPointer, value)]
     ELSE IF c2.size > 1
          THEN [c2 EXCEPT !.head = pointer,
                          !.backward = TypedPut(c2.backward, previousPointer, pointer),
                          !.forward = TypedPut(c2.forward, pointer, previousPointer)]
          ELSE c2

\* has that promotes the key it finds, as get does.
has_Promotes(c, key) ==
  [cache |-> IF MapHas(c.items, key) THEN splayOnTop(c, MapGet(c.items, key)) ELSE c,
   ret |-> MapHas(c.items, key)]

\* LRUCache.prototype.has: the cache after the call and the boolean returned.
has(c, key) == [cache |-> c, ret |-> MapHas(c.items, key)]

\* get that returns the value without promoting the key.
get_NoPromotion(c, key) ==
  LET pointer == MapGet(c.items, key)
  IN IF pointer = Undefined
     THEN [cache |-> c, ret |-> Undefined]
     ELSE [cache |-> c, ret |-> At(c.values, pointer)]

\* get that does not test whether the key was found.
get_NoMissCheck(c, key) ==
  LET pointer == MapGet(c.items, key)
      s == splayOnTop(c, pointer)
  IN [cache |-> s, ret |-> At(s.values, pointer)]

\* LRUCache.prototype.get: the cache after the call and the value returned.
get(c, key) ==
  LET pointer == MapGet(c.items, key)
  IN IF pointer = Undefined
     THEN [cache |-> c, ret |-> Undefined]
     ELSE LET s == splayOnTop(c, pointer)
          IN [cache |-> s, ret |-> At(s.values, pointer)]

\* The iterator of LRUCache.prototype.entries, consumed to the end: next() is
\* called with the captured pointer and counter i until it reports done.
RECURSIVE IteratorNext(_, _, _)
IteratorNext(c, pointer, i) ==
  IF i >= c.size THEN <<>>
  ELSE <<<<At(c.keys, pointer), At(c.values, pointer)>>>> \o
       IteratorNext(c, IF i + 1 < c.size THEN At(c.forward, pointer) ELSE pointer, i + 1)

\* entries that starts its walk at tail.
entries_FromTail(c) == IteratorNext(c, c.tail, 0)

\* LRUCache.prototype.entries
entries(c) == IteratorNext(c, c.head, 0)

\* ------------------------------------------------------ reference model
\* The abstract LRU list: a sequence of <<key, value>>, most recent first.
SeqKeys(s) == [i \in 1..Len(s) |-> s[i][1]]
Without(s, key) == SelectSeq(s, LAMBDA p : p[1] # key)
HasKey(s, key) == \E i \in 1..Len(s) : s[i][1] = key
ValueOf(s, key) == LET i == CHOOSE j \in 1..Len(s) : s[j][1] = key IN s[i][2]

ModelSet(s, cap, key, value) ==
  IF HasKey(s, key) THEN <<<<key, value>>>> \o Without(s, key)
  ELSE IF Len(s) < cap THEN <<<<key, value>>>> \o s
  ELSE <<<<key, value>>>> \o SubSeq(s, 1, Len(s) - 1)

ModelGet(s, key) ==
  IF HasKey(s, key) THEN <<<<key, ValueOf(s, key)>>>> \o Without(s, key) ELSE s

\* The distinct keys touched since construction or the last clear, most
\* recently touched first.
Touch(t, key) == <<key>> \o SelectSeq(t, LAMBDA k : k # key)

\* --------------------------------------------------------------- actions
\* The last call made on the cache: the method, the key and value it stored or
\* the key it found (undefined for a call that stored and found none), the
\* branch of the method that ran, the branch of splayOnTop that ran ("none"
\* when it was not called) and what the call returned (entries: the pairs its
\* iterator yields).
Called(op, key, value, branch, splay, ret) ==
  [op |-> op, key |-> key, value |-> value, branch |-> branch, splay |-> splay,
   ret |-> ret]

\* Which branch of splayOnTop(pointer) runs on cache c.
SplayCase(c, pointer) ==
  IF pointer = Undefined THEN "none"
  ELSE IF c.head = pointer THEN "head"
  ELSE IF c.tail = pointer THEN "tail"
  ELSE "middle"

Store(c) ==
  /\ capacity' = c.capacity
  /\ size' = c.size
  /\ head' = c.head
  /\ tail' = c.tail
  /\ forward' = c.forward
  /\ backward' = c.backward
  /\ keys' = c.keys
  /\ values' = c.values
  /\ items' = c.items

\* new LRUCache(capacity), as a value: the fields are allocated, then clear()
\* sets size, head and tail.
LRUCache(n) ==
  clear([capacity |-> n, size |-> Undefined, head |-> Undefined, tail |-> Undefined,
         forward |-> PointerArray(n), backward |-> PointerArray(n),
         keys |-> NewArray(n), values |-> NewArray(n), items |-> EmptyMap])

\* new LRUCache(capacity). fresh is a second cache of the same capacity that is
\* constructed anew whenever the first is cleared and receives the same calls.
Constructed(n) ==
  /\ capacity = LRUCache(n).capacity
  /\ forward = LRUCache(n).forward
  /\ backward = LRUCache(n).backward
  /\ keys = LRUCache(n).keys
  /\ values = LRUCache(n).values
  /\ size = LRUCache(n).size
  /\ head = LRUCache(n).head
  /\ tail = LRUCache(n).tail
  /\ items = LRUCache(n).items

\* No call made yet.
Started ==
  /\ call = Called("new", Undefined, Undefined, "clear", "none", Undefined)
  /\ touched = <<>>
  /\ model = <<>>
  /\ fresh = LRUCache(capacity)

\* The calls below are made one after another in any order; scenario, the
\* script of a fixed sequence of calls, is not in use.
NoScenario == [pc |-> 0, k |-> <<>>]

Init ==
  /\ \E n \in Capacities : Constructed(n)
  /\ Started
  /\ scenario = NoScenario

\* The constructor tests nothing: of the capacities that are not positive
\* integers, 0 gets through (new PointerArray(0) and new Array(0) succeed).
UncheckedCapacities == {0}

InitUnchecked ==
  /\ \E n \in UncheckedCapacities : Constructed(n)
  /\ Started
  /\ scenario = NoScenario

ClearCall ==
  /\ Store(clear(this))
  /\ call' = Called("clear", Undefined, Undefined, "clear", "none", Undefined)
  /\ touched' = <<>>
  /\ model' = <<>>
  /\ fresh' = LRUCache(capacity)

SetCall(key, value) ==
  /\ Store(set(this, key, value))
  /\ call' = Called("set", key, value,
                    IF MapGet(items, key) # Undefined THEN "update"
                    ELSE IF size < capacity THEN "insert" ELSE "evict",
                    SplayCase(this, MapGet(items, key)), Undefined)
  /\ touched' = Touch(touched, key)
  /\ model' = ModelSet(model, capacity, key, value)
  /\ fresh' = set(fresh, key, value)

GetCall(key) ==
  LET r == get(this, key)
  IN /\ Store(r.cache)
     /\ call' = Called("get", IF MapGet(items, key) # Undefined THEN key ELSE Undefined,
                       Undefined,
                       IF MapGet(items, key) # Undefined THEN "hit" ELSE "miss",
                       SplayCase(this, MapGet(items, key)), r.ret)
     /\ touched' = IF MapGet(items, key) # Undefined THEN Touch(touched, key) ELSE touched
     /\ model' = ModelGet(model, key)
     /\ fresh' = get(fresh, key).cache

HasCall(key) ==
  LET r == has(this, key)
  IN /\ Store(r.cache)
     /\ call' = Called("has", Undefined, Undefined, "has", "none", r.ret)
     /\ fresh' = has(fresh, key).cache
     /\ UNCHANGED <<touched, model>>

EntriesCall ==
  /\ Store(this)
  /\ call' = Called("entries", Undefined, Undefined, "entries", "none",
              entries(this))
  /\ UNCHANGED <<touched, model, fresh>>

Clear == ClearCall /\ UNCHANGED scenario
Set(key, value) == SetCall(key, value) /\ UNCHANGED scenario
Get(key) == GetCall(key) /\ UNCHANGED scenario
Has(key) == HasCall(key) /\ UNCHANGED scenario
Entries == EntriesCall /\ UNCHANGED scenario

Next ==
  \/ Clear
  \/ \E key \in Keys, value \in Values : Set(key, value)
  \/ \E key \in Keys : Get(key)
  \/ \E key \in Keys : Has(key)
  \/ Entries

Spec == Init /\ [][Next]_vars

\* The calls a cache constructed with capacity 0 accepts.
SpecUnchecked == InitUnchecked /\ [][Next]_vars

\* The scenario on a cache of capacity 3, for any four distinct keys k[1..4]
\* in the roles of a, b, c, d: set(a,1) set(b,2) set(c,3) entries() get(a)
\* entries() set(d,4) entries() has(b). scenario.pc is the next call to make.
ScenarioKeys == {k \in [1..4 -> Keys] : \A i, j \in 1..4 : k[i] = k[j] => i = j}

InitScenario ==
  /\ Constructed(3)
  /\ Started
  /\ \E k \in ScenarioKeys : scenario = [pc |-> 1, k |-> k]

Advance == scenario' = [scenario EXCEPT !.pc = scenario.pc + 1]

ScenarioSet ==
  \E step \in {<<1, 1, 1>>, <<2, 2, 2>>, <<3, 3, 3>>, <<7, 4, 4>>} :
    /\ scenario.pc = step[1]
    /\ SetCall(scenario.k[step[2]], step[3])
    /\ Advance

ScenarioEntries ==
  /\ scenario.pc \in {4, 6, 8}
  /\ EntriesCall
  /\ Advance

ScenarioGet ==
  /\ scenario.pc = 5
  /\ GetCall(scenario.k[1])
  /\ Advance

ScenarioHas ==
  /\ scenario.pc = 9
  /\ HasCall(scenario.k[2])
  /\ Advance

NextScenario == ScenarioSet \/ ScenarioEntries \/ ScenarioGet \/ ScenarioHas

SpecScenario == InitScenario /\ [][NextScenario]_vars

\* ------------------------------------------------------------- properties
Min(a, b) == IF a < b THEN a ELSE b
Range(s) == {s[i] : i \in 1..Len(s)}
Distinct(s) == \A i, j \in 1..Len(s) : s[i] = s[j] => i = j

\* The keys for which has returns true.
Resident(c) == {k \in Keys : has(c, k).ret}

\* C1: the resident keys are the min(capacity, number of distinct keys
\* touched) most recently touched distinct keys, a key being touched by set
\* and by a successful get, since construction or the last clear.
ResidentAreMostRecentlyTouched ==
  Resident(this) = {touched[i] : i \in 1..Min(capacity, Len(touched))}

EvictedKeyTouchedAgain ==
  /\ Len(touched) > capacity
  /\ capacity = MaxCapacity
  /\ call.branch = "hit"
  /\ Resident(this) # Range(touched)

\* C2: 0 <= size <= capacity in every reachable state.
SizeWithinCapacity == 0 <= size /\ size <= capacity

FullAfterEviction == call.branch = "evict" /\ size = capacity /\ capacity > 1

\* C3: entries() yields exactly size pairs with pairwise distinct keys, most
\* recently used first, equal to the list of the reference model.
EntriesRefineModel ==
  /\ Len(entries(this)) = size
  /\ Distinct(SeqKeys(entries(this)))
  /\ entries(this) = model

EntriesAfterPromotionOfMiddle ==
  /\ call.branch = "hit"
  /\ call.splay = "middle"
  /\ Len(touched) > capacity
  /\ Len(entries(this)) = MaxCapacity
  /\ entries(this)[1] = <<call.key, call.ret>>

\* C4: set of a key that is not resident at size = capacity evicts exactly the
\* least recently used entry (the last pair of entries()), keeps every other
\* entry with its value, keeps size and puts the new pair first.
EvictsLeastRecentlyUsed ==
  \A key \in Keys, value \in Values :
    (~has(this, key).ret /\ size = capacity) =>
      LET old == entries(this)
          lru == old[Len(old)][1]
          c == set(this, key, value)
      IN /\ ~has(c, lru).ret
         /\ Resident(c) = (Resident(this) \ {lru}) \cup {key}
         /\ \A i \in 1..(Len(old) - 1) :
              /\ has(c, old[i][1]).ret
              /\ ValueOf(entries(c), old[i][1]) = old[i][2]
         /\ c.size = size
         /\ entries(c)[1] = <<key, value>>

EvictionHappened ==
  /\ call.branch = "evict"
  /\ capacity = MaxCapacity
  /\ entries(this)[1] = <<call.key, call.value>>
  /\ Len(touched) > capacity

\* C5: after a successful get(k), entries() yields k first, and the value
\* returned is the value paired with k.
GetPromotesToFront ==
  \A key \in Keys :
    has(this, key).ret =>
      LET r == get(this, key)
      IN /\ entries(r.cache)[1] = <<key, r.ret>>
         /\ r.ret = ValueOf(entries(this), key)

GetHitOfTail ==
  /\ call.branch = "hit"
  /\ call.splay = "tail"
  /\ size = MaxCapacity
  /\ entries(this)[1] = <<call.key, call.ret>>
  /\ tail # head

\* C6: set(k, v) followed immediately by get(k) returns v, whether k was
\* absent, resident, or inserted by evicting another key.
SetThenGetRoundTrip ==
  \A key \in Keys, value \in Values : get(set(this, key, value), key).ret = value

RoundTripAfterEviction ==
  /\ call.branch = "evict"
  /\ get(this, call.key).ret = call.value
  /\ call.value = NumValues

\* C7: has(k) is true exactly when k is a key of entries(), and it changes
\* nothing in the cache.
HasIsPureMembership ==
  \A key \in Keys :
    /\ has(this, key).ret = HasKey(entries(this), key)
    /\ has(this, key).cache = this
    /\ entries(has(this, key).cache) = entries(this)

HasFoundKeyInFullCache ==
  /\ call.op = "has"
  /\ call.ret = TRUE
  /\ size = MaxCapacity
  /\ tail # head
  /\ Len(touched) > capacity

\* C8: set of a resident key stores the value, puts the key first, keeps size
\* and evicts nothing, also at size = capacity.
UpdateKeepsResidents ==
  \A key \in Keys, value \in Values :
    has(this, key).ret =>
      LET c == set(this, key, value)
      IN /\ get(c, key).ret = value
         /\ entries(c)[1] = <<key, value>>
         /\ c.size = size
         /\ Resident(c) = Resident(this)
         /\ Len(entries(c)) = Len(entries(this))

UpdateAtFullCapacity ==
  /\ call.branch = "update"
  /\ call.splay = "tail"
  /\ size = capacity
  /\ capacity = MaxCapacity
  /\ entries(this)[1] = <<call.key, call.value>>

\* C9: get of a key that is not resident returns undefined and leaves the
\* whole cache unchanged.
GetMissChangesNothing ==
  \A key \in Keys :
    ~has(this, key).ret => get(this, key) = [cache |-> this, ret |-> Undefined]

GetMissOnNonEmptyCache ==
  /\ call.branch = "miss"
  /\ call.ret = Undefined
  /\ size > 0

\* C10: clear() leaves size = 0, has(k) false for every key and entries()
\* empty.
ClearEmpties ==
  LET c == clear(this)
  IN /\ c.size = 0
     /\ \A key \in Keys : ~has(c, key).ret
     /\ entries(c) = <<>>

ClearedFullCache ==
  /\ call.op = "clear"
  /\ size = 0
  /\ \A i \in 0..(capacity - 1) : At(keys, i) # Undefined
  /\ capacity = MaxCapacity

\* C11: get of the key at the head changes nothing, and repeated get(k) calls
\* leave entries() as it was after the first one.
HeadGetIdempotent ==
  /\ size >= 1 => get(this, At(keys, head)).cache = this
  /\ \A key \in Keys :
       has(this, key).ret =>
         LET r1 == get(this, key)
             r2 == get(r1.cache, key)
             r3 == get(r2.cache, key)
         IN /\ entries(r2.cache) = entries(r1.cache)
            /\ entries(r3.cache) = entries(r1.cache)
            /\ r2.cache = r1.cache
            /\ r2.ret = r1.ret /\ r3.ret = r1.ret

GetOfHeadKey ==
  /\ call.branch = "hit"
  /\ call.splay = "head"
  /\ size = MaxCapacity
  /\ At(keys, head) = call.key

\* C12: a capacity that is not a positive integer fails at construction, so
\* no method ever runs on a cache whose capacity is not a positive integer.
NoCallOnInvalidCapacity ==
  call.op \in {"set", "get", "has", "clear", "entries"} => capacity >= 1

\* C13: on a fresh cache of capacity 3, after set(a,1) set(b,2) set(c,3)
\* entries() is [(c,3),(b,2),(a,1)]; get(a) returns 1 and entries() is
\* [(a,1),(c,3),(b,2)]; set(d,4) evicts b, entries() is [(d,4),(a,1),(c,3)]
\* and has(b) is false.
ScenarioResults ==
  LET a == scenario.k[1]
      b == scenario.k[2]
      c == scenario.k[3]
      d == scenario.k[4]
  IN /\ scenario.pc = 5 => call.ret = <<<<c, 3>>, <<b, 2>>, <<a, 1>>>>
     /\ scenario.pc = 6 => call.ret = 1
     /\ scenario.pc = 7 => call.ret = <<<<a, 1>>, <<c, 3>>, <<b, 2>>>>
     /\ scenario.pc = 8 => call.branch = "evict" /\ ~has(this, b).ret
     /\ scenario.pc = 9 => call.ret = <<<<d, 4>>, <<a, 1>>, <<c, 3>>>>
     /\ scenario.pc = 10 => call.op = "has" /\ call.ret = FALSE

ScenarioPlayedToTheEnd ==
  /\ scenario.pc = 10
  /\ scenario.k = <<1, 2, 3, 4>>
  /\ call.op = "has"
  /\ Len(entries(this)) = 3

\* The slots met from head by following forward size - 1 times, and from tail
\* by following backward size - 1 times.
RECURSIVE ForwardWalk(_, _, _)
ForwardWalk(c, pointer, n) ==
  IF n = 0 THEN <<>> ELSE <<pointer>> \o ForwardWalk(c, At(c.forward, pointer), n - 1)

RECURSIVE BackwardWalk(_, _, _)
BackwardWalk(c, pointer, n) ==
  IF n = 0 THEN <<>> ELSE <<pointer>> \o BackwardWalk(c, At(c.backward, pointer), n - 1)

Reverse(s) == [i \in 1..Len(s) |-> s[Len(s) + 1 - i]]
LiveSlots(c) == 0..(c.size - 1)

\* C14: with size >= 1 the live slots form one doubly-linked list: forward
\* from head visits size distinct slots and ends at tail, backward undoes each
\* forward step, and backward from tail reaches head after size - 1 steps.
LinkedListWellFormed ==
  size >= 1 =>
    LET w == ForwardWalk(this, head, size)
    IN /\ Distinct(w)
       /\ Range(w) = LiveSlots(this)
       /\ w[size] = tail
       /\ \A i \in 1..(size - 1) : At(backward, w[i + 1]) = w[i]
       /\ BackwardWalk(this, tail, size) = Reverse(w)

ListAfterPromotionOfTail ==
  /\ call.splay = "tail"
  /\ size = 3
  /\ ForwardWalk(this, head, size)[1] = MapGet(items, call.key)

\* C15: the key index has exactly size entries, maps the key of every live
\* slot to that slot, maps every key to a live slot, and no two live slots
\* hold the same key.
KeyIndexConsistent ==
  /\ Cardinality(DOMAIN items) = size
  /\ \A s \in LiveSlots(this) : MapGet(items, At(keys, s)) = s
  /\ \A key \in DOMAIN items : items[key] \in LiveSlots(this)
  /\ \A s, t \in LiveSlots(this) : At(keys, s) = At(keys, t) => s = t

KeyIndexAfterEviction ==
  /\ call.branch = "evict"
  /\ Cardinality(DOMAIN items) = MaxCapacity
  /\ MapGet(items, call.key) = head
  /\ NumKeys - Cardinality(DOMAIN items) >= 1

\* C16: head = tail exactly when size <= 1, and with size = 1 both designate
\* the sole live slot.
HeadIsTailIffAtMostOne ==
  /\ (head = tail) <=> (size <= 1)
  /\ size = 1 => /\ head \in LiveSlots(this)
                 /\ MapGet(items, At(keys, head)) = head

FirstInsertionAfterClear ==
  /\ call.branch = "insert"
  /\ size = 1
  /\ capacity = MaxCapacity
  /\ At(keys, 1) # Undefined

\* C17 as stated: no slot index >= size is referenced by head, by tail or by
\* any forward or backward entry.
NoSlotBeyondSizeReferenced ==
  /\ head < size
  /\ tail < size
  /\ \A i \in DOMAIN forward : forward[i] < size
  /\ \A i \in DOMAIN backward : backward[i] < size

\* C17 as amended: with size >= 1, head, tail and the links the list uses
\* (forward of every live slot but tail, backward of every live slot but
\* head) are below size; a new key takes slot size while size < capacity and
\* the slot of the evicted tail at full capacity.
LiveLinksWithinSize ==
  /\ size >= 1 =>
       /\ head \in LiveSlots(this)
       /\ tail \in LiveSlots(this)
       /\ \A s \in LiveSlots(this) :
            /\ s # tail => At(forward, s) \in LiveSlots(this)
            /\ s # head => At(backward, s) \in LiveSlots(this)
  /\ \A key \in Keys, value \in Values :
       ~has(this, key).ret =>
         LET c == set(this, key, value)
         IN IF size < capacity
            THEN /\ MapGet(c.items, key) = size
                 /\ c.size = size + 1
            ELSE /\ MapGet(c.items, key) = tail
                 /\ c.size = size

StaleLinkBeyondSize ==
  /\ call.branch = "insert"
  /\ size >= 1
  /\ size < capacity
  /\ \E i \in DOMAIN backward : backward[i] >= size

\* C18: forward, backward, keys and values keep length capacity, every index
\* the methods write is in [0, capacity), and clear() leaves the four arrays
\* as they are.
SlotIndexes == 0..(capacity - 1)

ArraysKeepLength ==
  /\ DOMAIN forward = SlotIndexes
  /\ DOMAIN backward = SlotIndexes
  /\ DOMAIN keys = SlotIndexes
  /\ DOMAIN values = SlotIndexes
  /\ head \in SlotIndexes /\ tail \in SlotIndexes
  /\ \A i \in SlotIndexes : forward[i] \in SlotIndexes /\ backward[i] \in SlotIndexes
  /\ \A key \in DOMAIN items : items[key] \in SlotIndexes
  /\ size < capacity => size \in SlotIndexes
  /\ LET c == clear(this)
     IN /\ c.forward = forward
        /\ c.backward = backward
        /\ c.keys = keys
        /\ c.values = values

ClearLeftArraysFilled ==
  /\ call.op = "clear"
  /\ capacity = MaxCapacity
  /\ At(values, capacity - 1) # Undefined
  /\ \E i \in DOMAIN forward : forward[i] # 0

\* C19: promotion through a successful get or a set of a resident key keeps
\* size, the resident keys and the values of the other keys, and the entries
\* other than the promoted one keep their order.
PromotionMovesOneEntry ==
  \A key \in Keys :
    has(this, key).ret =>
      /\ LET c == get(this, key).cache
         IN /\ c.size = size
            /\ Resident(c) = Resident(this)
            /\ Without(entries(c), key) = Without(entries(this), key)
            /\ ValueOf(entries(c), key) = ValueOf(entries(this), key)
      /\ \A value \in Values :
           LET c == set(this, key, value)
           IN /\ c.size = size
              /\ Resident(c) = Resident(this)
              /\ Without(entries(c), key) = Without(entries(this), key)

UpdatePromotedMiddle ==
  /\ call.branch = "update"
  /\ call.splay = "middle"
  /\ size = MaxCapacity
  /\ Len(Without(entries(this), call.key)) = MaxCapacity - 1

\* C20: after clear() the cache answers every call as a newly constructed
\* cache of the same capacity given the same calls: size, entries() and the
\* results of has and get agree, whatever clear() left in the arrays.
ClearedBehavesAsFresh ==
  /\ fresh.capacity = capacity
  /\ size = fresh.size
  /\ entries(this) = entries(fresh)
  /\ \A key \in Keys :
       /\ has(this, key).ret = has(fresh, key).ret
       /\ get(this, key).ret = get(fresh, key).ret

PromotionOverStaleLinks ==
  /\ call.branch = "hit"
  /\ call.splay = "tail"
  /\ size = MaxCapacity
  /\ forward # fresh.forward
  /\ keys = fresh.keys

====
